---- MODULE Spec2Model ----
(***************************************************************************)
(* Model of the INI parser (src/ini_parser.h, src/ini_parser.cpp) and of   *)
(* its caller (src/main.cpp).                                              *)
(*                                                                         *)
(* A std::string is a finite sequence of characters; a character is a      *)
(* one-character TLA+ string.  A character outside ASCII is written as the *)
(* token "U+XXXX".  Positions are 0-based as in the source, npos is the    *)
(* "not found" position.  Error messages are named by their kind:          *)
(*   MalformedSection        ini_parser.cpp:112                            *)
(*   EmptySectionName        ini_parser.cpp:55                             *)
(*   NameContainsWhitespace  ini_parser.cpp:63 (section), :82 (key)        *)
(*   MissingEquals           ini_parser.cpp:32                             *)
(*   EmptyKey                ini_parser.cpp:41 and :74 (same message)      *)
(*   KeyValueOutsideSection  ini_parser.cpp:127                            *)
(*   SourceUnavailable       ini_parser.cpp:168                            *)
(*   CannotCreateConfig      ini_parser.cpp:276                            *)
(*   MalformedPath           ini_parser.cpp:186                            *)
(*   EmptyPathComponent      ini_parser.cpp:195                            *)
(*   SectionNotFound         ini_parser.cpp:222                            *)
(*   KeyNotFound             ini_parser.cpp:249                            *)
(*   ConversionError         ini_parser.h:78, :147                         *)
(* std::isspace and std::tolower are applied by the source to plain char;  *)
(* for a character outside ASCII that is undefined behaviour, and the      *)
(* lines read from a file are therefore bounded here to ASCII names.       *)
(***************************************************************************)
EXTENDS Integers, Sequences, FiniteSets, TLC

VARIABLES
  pc,                 \* position of the caller: start, parsing, creating, done, error
  source,             \* which stream parse_file reads: none, file, default
  use_default_config, \* ini_parser::use_default_config
  nread,              \* how many lines std::getline has returned so far
  raw,                \* the last line std::getline returned
  trimmed,            \* parse_file's line once trimmed (ini_parser.cpp:98)
  line_num,           \* parse_file's line_num
  current_section,    \* parse_file's current_section
  data,               \* ini_parser::data: section -> (key -> value)
  err,                \* the ini_parser_error that left the constructor, if any
  stored,             \* (section, key) -> the value last assigned at ini_parser.cpp:135
  written,            \* what create_default_config wrote to the file
  q                   \* the last get_value<T> call and its outcome

vars == << pc, source, use_default_config, nread, raw, trimmed, line_num,
           current_section, data, err, stored, written, q >>

-----------------------------------------------------------------------------
(* Bounds of the model *)

\* longest file read, in lines
MaxLines == 4

\* longest value composed freely from ValueChars
MaxValueLen == 3

\* longest line composed freely from LineChars
MaxLineLen == 4

-----------------------------------------------------------------------------
(* std::string *)

npos == -1

Min(a, b) == IF a < b THEN a ELSE b

\* str.substr(pos, count)
substr(str, pos, count) == SubSeq(str, pos + 1, Min(pos + count, Len(str)))

\* str.substr(pos)
substr_from(str, pos) == SubSeq(str, pos + 1, Len(str))

\* str.find(c)
find(str, c) ==
  IF \E i \in 1..Len(str) : str[i] = c
  THEN (CHOOSE i \in 1..Len(str) :
          str[i] = c /\ \A j \in 1..(i - 1) : str[j] # c) - 1
  ELSE npos

\* str.find_first_not_of(set)
find_first_not_of(str, set) ==
  IF \E i \in 1..Len(str) : str[i] \notin set
  THEN (CHOOSE i \in 1..Len(str) :
          str[i] \notin set /\ \A j \in 1..(i - 1) : str[j] \in set) - 1
  ELSE npos

\* str.find_last_not_of(set)
find_last_not_of(str, set) ==
  IF \E i \in 1..Len(str) : str[i] \notin set
  THEN (CHOOSE i \in 1..Len(str) :
          str[i] \notin set /\ \A j \in (i + 1)..Len(str) : str[j] \in set) - 1
  ELSE npos

\* std::isspace in the "C" locale, on ASCII
isspace(c) == c \in {" ", "\t", "\n", "\r", "\f"}

\* the ASCII characters of the model in the order of their codes; std::map
\* orders its keys by std::string's operator<, which compares codes
AsciiOrder ==
  << "\t", "\n", "\f", "\r", " ", "!", "'", "+", ",", "-", ".",
     "0", "1", "2", "3", "4", "5", "6", "7", "8", "9", ":", ";", "=",
     "A", "B", "C", "D", "E", "F", "G", "H", "I", "J", "K", "L", "M",
     "N", "O", "P", "Q", "R", "S", "T", "U", "V", "W", "X", "Y", "Z",
     "[", "]",
     "a", "b", "c", "d", "e", "f", "g", "h", "i", "j", "k", "l", "m",
     "n", "o", "p", "q", "r", "s", "t", "u", "v", "w", "x", "y", "z" >>

Code(c) ==
  IF \E i \in 1..Len(AsciiOrder) : AsciiOrder[i] = c
  THEN CHOOSE i \in 1..Len(AsciiOrder) : AsciiOrder[i] = c
  ELSE Len(AsciiOrder) + 1

\* a < b for std::string
RECURSIVE StrLess(_, _)
StrLess(a, b) ==
  IF b = << >> THEN FALSE
  ELSE IF a = << >> THEN TRUE
  ELSE IF Code(Head(a)) # Code(Head(b)) THEN Code(Head(a)) < Code(Head(b))
  ELSE StrLess(Tail(a), Tail(b))

\* the keys of a std::map in iteration order
RECURSIVE MapKeys(_)
MapKeys(m) ==
  IF DOMAIN m = {} THEN << >>
  ELSE LET k == CHOOSE x \in DOMAIN m :
                  \A y \in DOMAIN m \ {x} : StrLess(x, y)
       IN << k >> \o MapKeys([y \in DOMAIN m \ {k} |-> m[y]])

EmptyMap == [x \in {} |-> << >>]

\* m[k] of std::map used for its side effect: inserts a default value
MapIndex(m, k, dflt) ==
  IF k \in DOMAIN m THEN m
  ELSE [x \in DOMAIN m \cup {k} |-> IF x = k THEN dflt ELSE m[x]]

\* m[k] = v
MapAssign(m, k, v) == [x \in DOMAIN m \cup {k} |-> IF x = k THEN v ELSE m[x]]

-----------------------------------------------------------------------------
(* ini_parser_error *)

NoError == [kind |-> "none", line |-> -1]

\* ini_parser_error(msg, line): what() carries the line unless line = -1
ini_parser_error(msg, line) == [kind |-> msg, line |-> line]

-----------------------------------------------------------------------------
(* Tokenizer / validator *)

\* trim with every std::isspace character stripped
trim_isspace(str) ==
  LET ws == {" ", "\t", "\n", "\r", "\f"}
      first == find_first_not_of(str, ws)
  IN IF first = npos THEN << >>
     ELSE LET last == find_last_not_of(str, ws)
          IN substr(str, first, last - first + 1)

\* lines 7-21
trim(str) ==
  LET first == find_first_not_of(str, {" ", "\t"})
  IN IF first = npos THEN << >>
     ELSE LET last == find_last_not_of(str, {" ", "\t"})
          IN substr(str, first, last - first + 1)

\* split_key_value with the line split at its last '='
split_key_value_last_eq(line, n) ==
  LET eqs == { i \in 0..(Len(line) - 1) : line[i + 1] = "=" }
      eq_pos == IF eqs = {} THEN npos
                ELSE CHOOSE i \in eqs : \A j \in eqs : j <= i
  IN IF eq_pos = npos
     THEN [err |-> ini_parser_error("MissingEquals", n),
           first |-> << >>, second |-> << >>]
     ELSE LET key == trim(substr(line, 0, eq_pos))
          IN IF key = << >>
             THEN [err |-> ini_parser_error("EmptyKey", n),
                   first |-> << >>, second |-> << >>]
             ELSE [err |-> NoError, first |-> key,
                   second |-> trim(substr_from(line, eq_pos + 1))]

\* split_key_value with the value left as it follows the '='
split_key_value_untrimmed(line, n) ==
  LET eq_pos == find(line, "=")
  IN IF eq_pos = npos
     THEN [err |-> ini_parser_error("MissingEquals", n),
           first |-> << >>, second |-> << >>]
     ELSE LET key == trim(substr(line, 0, eq_pos))
          IN IF key = << >>
             THEN [err |-> ini_parser_error("EmptyKey", n),
                   first |-> << >>, second |-> << >>]
             ELSE [err |-> NoError, first |-> key,
                   second |-> substr_from(line, eq_pos + 1)]

\* the outcome is the thrown error, or the pair (first, second)
split_key_value(line, n) ==
  LET eq_pos == find(line, "=")
  IN IF eq_pos = npos
     THEN [err |-> ini_parser_error("MissingEquals", n),
           first |-> << >>, second |-> << >>]
     ELSE LET key == trim(substr(line, 0, eq_pos))
          IN IF key = << >>
             THEN [err |-> ini_parser_error("EmptyKey", n),
                   first |-> << >>, second |-> << >>]
             ELSE [err |-> NoError, first |-> key,
                   second |-> trim(substr_from(line, eq_pos + 1))]

\* the thrown error, or NoError
validate_section_name(name, n) ==
  IF name = << >> THEN ini_parser_error("EmptySectionName", n)
  ELSE IF \E i \in 1..Len(name) : isspace(name[i])
       THEN ini_parser_error("NameContainsWhitespace", n)
       ELSE NoError

validate_key_name(name, n) ==
  IF name = << >> THEN ini_parser_error("EmptyKey", n)
  ELSE IF \E i \in 1..Len(name) : isspace(name[i])
       THEN ini_parser_error("NameContainsWhitespace", n)
       ELSE NoError

-----------------------------------------------------------------------------
(* The streams *)

\* the raw string literal parsed when the file is missing
DefaultConfigText ==
  << "\n",
     "[", "S", "e", "c", "t", "i", "o", "n", "1", "]", "\n",
     ";", " ", "U+041F", "U+0440", "U+0438", "U+043C", "U+0435", "U+0440", " ", "U+0441", "U+0435", "U+043A", "U+0446", "U+0438", "U+0438", " ", "U+0441", " ", "U+0440", "U+0443", "U+0441", "U+0441", "U+043A", "U+0438", "U+043C", "U+0438", " ", "U+043A", "U+043E", "U+043C", "U+043C", "U+0435", "U+043D", "U+0442", "U+0430", "U+0440", "U+0438", "U+044F", "U+043C", "U+0438", "\n",
     "v", "a", "r", "1", " ", "=", " ", "5", "\n",
     "v", "a", "r", "2", " ", "=", " ", "U+041F", "U+0440", "U+0438", "U+0432", "U+0435", "U+0442", ",", " ", "U+043C", "U+0438", "U+0440", "!", "\n",
     "\n",
     "[", "S", "e", "c", "t", "i", "o", "n", "2", "]", "\n",
     "v", "a", "r", "1", " ", "=", " ", "4", "2", "\n",
     "v", "a", "r", "2", " ", "=", " ", "U+0422", "U+0435", "U+0441", "U+0442", "U+043E", "U+0432", "U+0430", "U+044F", " ", "U+0441", "U+0442", "U+0440", "U+043E", "U+043A", "U+0430", "\n" >>

\* ScaffoldText with the literal starting at its first header
ScaffoldText_from_header == Tail(DefaultConfigText)

\* the raw string literal create_default_config writes
ScaffoldText ==
  << "\n",
     "[", "S", "e", "c", "t", "i", "o", "n", "1", "]", "\n",
     ";", " ", "U+041F", "U+0440", "U+0438", "U+043C", "U+0435", "U+0440", " ", "U+0441", "U+0435", "U+043A", "U+0446", "U+0438", "U+0438", " ", "U+0441", " ", "U+0440", "U+0443", "U+0441", "U+0441", "U+043A", "U+0438", "U+043C", "U+0438", " ", "U+043A", "U+043E", "U+043C", "U+043C", "U+0435", "U+043D", "U+0442", "U+0430", "U+0440", "U+0438", "U+044F", "U+043C", "U+0438", "\n",
     "v", "a", "r", "1", " ", "=", " ", "5", "\n",
     "v", "a", "r", "2", " ", "=", " ", "U+041F", "U+0440", "U+0438", "U+0432", "U+0435", "U+0442", ",", " ", "U+043C", "U+0438", "U+0440", "!", "\n",
     "\n",
     "[", "S", "e", "c", "t", "i", "o", "n", "2", "]", "\n",
     "v", "a", "r", "1", " ", "=", " ", "4", "2", "\n",
     "v", "a", "r", "2", " ", "=", " ", "U+0422", "U+0435", "U+0441", "U+0442", "U+043E", "U+0432", "U+0430", "U+044F", " ", "U+0441", "U+0442", "U+0440", "U+043E", "U+043A", "U+0430", "\n" >>

\* the lines std::getline yields from a text
RECURSIVE GetLines(_)
GetLines(text) ==
  IF text = << >> THEN << >>
  ELSE LET nl == find(text, "\n")
       IN IF nl = npos THEN << text >>
          ELSE << substr(text, 0, nl) >> \o GetLines(substr_from(text, nl + 1))

\* the lines std::getline yields from the default configuration
DefaultLines == GetLines(DefaultConfigText)

\* the lines a file of the model may hold
Lines ==
  { << >>,
    << " ", "\t" >>,
    << " ", ";", "k", "=", "5" >>,
    << "[", "a", "]" >>,
    << " ", "[", " ", "b", "\t", "]", " " >>,
    << "[", "a", ".", "b", "]" >>,
    << "[", "a", " ", "b", "]" >>,
    << "[", " ", "]" >>,
    << "[", "a" >>,
    << "[", "a", "]", "\r" >>,
    << "k", "=", "5" >>,
    << "\t", "k", " ", "=", " ", "o", "n", " " >>,
    << "b", ".", "k", "=", "x" >>,
    << "k", "=" >>,
    << "z", "=", "a", "=", ";", "b" >>,
    << "=", "5" >>,
    << "k", " ", "k", "=", "5" >>,
    << "k", "5" >> }

\* the lines the current stream can yield next
NextLines ==
  IF source = "file"
  THEN IF nread < MaxLines THEN Lines ELSE {}
  ELSE IF source = "default"
       THEN IF nread < Len(DefaultLines) THEN {DefaultLines[nread + 1]} ELSE {}
       ELSE {}

\* AtEnd with std::getline never failing on a file
AtEnd_default_only ==
  source = "default" /\ nread = Len(DefaultLines)

\* std::getline can fail: a file ends anywhere, the default text at its end
AtEnd ==
  \/ source = "file"
  \/ source = "default" /\ nread = Len(DefaultLines)

-----------------------------------------------------------------------------
(* parse_file: one iteration of the loop, as a function of the line read
   and the parser's state.  The outcome holds the error thrown (or NoError),
   the new line_num, current_section and data, and the assignment made at
   line 135, as a map (section, key) -> value. *)

Outcome(e, n, cs, d, w) ==
  [err |-> e, line_num |-> n, current_section |-> cs, data |-> d, wrote |-> w]

\* parse_section closing the name at the first ']' of the line
parse_section_first_close(line, n, cs, d) ==
  IF find(line, "]") = npos
  THEN Outcome(ini_parser_error("MalformedSection", n), n, cs, d, EmptyMap)
  ELSE LET name == trim(substr(line, 1, find(line, "]") - 1))
           e == validate_section_name(name, n)
       IN IF e # NoError THEN Outcome(e, n, name, d, EmptyMap)
          ELSE Outcome(NoError, n, name, MapIndex(d, name, EmptyMap), EmptyMap)

\* parse_section without the statement data[current_section]
parse_section_no_insert(line, n, cs, d) ==
  IF line[Len(line)] # "]"
  THEN Outcome(ini_parser_error("MalformedSection", n), n, cs, d, EmptyMap)
  ELSE LET name == trim(substr(line, 1, Len(line) - 2))
           e == validate_section_name(name, n)
       IN Outcome(e, n, name, d, EmptyMap)

\* parse_section with the section assigned an empty map instead of indexed
parse_section_reset(line, n, cs, d) ==
  IF line[Len(line)] # "]"
  THEN Outcome(ini_parser_error("MalformedSection", n), n, cs, d, EmptyMap)
  ELSE LET name == trim(substr(line, 1, Len(line) - 2))
           e == validate_section_name(name, n)
       IN IF e # NoError THEN Outcome(e, n, name, d, EmptyMap)
          ELSE Outcome(NoError, n, name, MapAssign(d, name, EmptyMap), EmptyMap)

\* lines 107-122: line is the trimmed line and starts with '['
parse_section(line, n, cs, d) ==
  IF line[Len(line)] # "]"
  THEN Outcome(ini_parser_error("MalformedSection", n), n, cs, d, EmptyMap)
  ELSE LET name == trim(substr(line, 1, Len(line) - 2))
           e == validate_section_name(name, n)
       IN IF e # NoError THEN Outcome(e, n, name, d, EmptyMap)
          ELSE Outcome(NoError, n, name, MapIndex(d, name, EmptyMap), EmptyMap)

\* parse_key_value with the line split and validated before the section check
parse_key_value_split_first(line, n, cs, d) ==
  LET kv == split_key_value(line, n)
  IN IF kv.err # NoError THEN Outcome(kv.err, n, cs, d, EmptyMap)
     ELSE LET e == validate_key_name(kv.first, n)
          IN IF e # NoError THEN Outcome(e, n, cs, d, EmptyMap)
             ELSE IF cs = << >>
             THEN Outcome(ini_parser_error("KeyValueOutsideSection", n),
                          n, cs, d, EmptyMap)
             ELSE LET d1 == MapIndex(d, cs, EmptyMap)
                  IN Outcome(NoError, n, cs,
                             MapAssign(d1, cs,
                                       MapAssign(d1[cs], kv.first, kv.second)),
                             [x \in {<< cs, kv.first >>} |-> kv.second])

\* lines 124-135: line is the trimmed line, no blank, comment or header
parse_key_value(line, n, cs, d) ==
  IF cs = << >>
  THEN Outcome(ini_parser_error("KeyValueOutsideSection", n), n, cs, d, EmptyMap)
  ELSE LET kv == split_key_value(line, n)
       IN IF kv.err # NoError THEN Outcome(kv.err, n, cs, d, EmptyMap)
          ELSE LET e == validate_key_name(kv.first, n)
               IN IF e # NoError THEN Outcome(e, n, cs, d, EmptyMap)
                  ELSE LET d1 == MapIndex(d, cs, EmptyMap)
                       IN Outcome(NoError, n, cs,
                                  MapAssign(d1, cs,
                                            MapAssign(d1[cs], kv.first, kv.second)),
                                  [x \in {<< cs, kv.first >>} |-> kv.second])

\* parse_line with a ';' anywhere in the line making it a comment
parse_line_comment_anywhere(l, ln, cs, d) ==
  LET n == ln + 1
      line == trim(l)
  IN IF line = << >> \/ find(line, ";") # npos
     THEN Outcome(NoError, n, cs, d, EmptyMap)
     ELSE IF line[1] = "[" THEN parse_section(line, n, cs, d)
     ELSE parse_key_value(line, n, cs, d)

\* parse_line with line_num incremented after the blank and comment lines
\* are skipped
parse_line_count_after_skip(l, ln, cs, d) ==
  LET line == trim(l)
  IN IF line = << >> \/ line[1] = ";" THEN Outcome(NoError, ln, cs, d, EmptyMap)
     ELSE IF line[1] = "[" THEN parse_section(line, ln + 1, cs, d)
     ELSE parse_key_value(line, ln + 1, cs, d)

\* lines 97-136
parse_line(l, ln, cs, d) ==
  LET n == ln + 1
      line == trim(l)
  IN IF line = << >> \/ line[1] = ";" THEN Outcome(NoError, n, cs, d, EmptyMap)
     ELSE IF line[1] = "[" THEN parse_section(line, n, cs, d)
     ELSE parse_key_value(line, n, cs, d)

-----------------------------------------------------------------------------
(* The typed accessor *)

NoValue == [kind |-> "none", str |-> << >>, int |-> 0, bool |-> FALSE,
            hint |-> << >>]

StrValue(s)  == [NoValue EXCEPT !.kind = "ok", !.str = s]
IntValue(i)  == [NoValue EXCEPT !.kind = "ok", !.int = i]
BoolValue(b) == [NoValue EXCEPT !.kind = "ok", !.bool = b]
Failure(kind, hint) == [NoValue EXCEPT !.kind = kind, !.hint = hint]

Range(str) == { str[i] : i \in 1..Len(str) }

\* lines 213-220 and 240-247: the names joined by ", "
RECURSIVE JoinHint(_)
JoinHint(names) ==
  IF names = << >> THEN << >>
  ELSE IF Len(names) = 1 THEN names[1]
  ELSE names[1] \o << ",", " " >> \o JoinHint(Tail(names))

\* get_value_as_string with the path split at its last '.'
get_value_as_string_rfind(d, key_path) ==
  LET dot_pos == find_last_not_of(key_path, {c \in Range(key_path) : c # "."})
  IN IF dot_pos = npos THEN Failure("MalformedPath", << >>)
     ELSE LET section == substr(key_path, 0, dot_pos)
              key == substr_from(key_path, dot_pos + 1)
          IN IF section = << >> \/ key = << >>
             THEN Failure("EmptyPathComponent", << >>)
             ELSE IF section \notin DOMAIN d
             THEN Failure("SectionNotFound", JoinHint(MapKeys(d)))
             ELSE IF key \notin DOMAIN d[section]
             THEN Failure("KeyNotFound", JoinHint(MapKeys(d[section])))
             ELSE StrValue(d[section][key])

\* get_value_as_string with the hint of the section miss copied to the key miss
get_value_as_string_section_hint(d, key_path) ==
  LET dot_pos == find(key_path, ".")
  IN IF dot_pos = npos THEN Failure("MalformedPath", << >>)
     ELSE LET section == substr(key_path, 0, dot_pos)
              key == substr_from(key_path, dot_pos + 1)
          IN IF section = << >> \/ key = << >>
             THEN Failure("EmptyPathComponent", << >>)
             ELSE IF section \notin DOMAIN d
             THEN Failure("SectionNotFound", JoinHint(MapKeys(d)))
             ELSE IF key \notin DOMAIN d[section]
             THEN Failure("KeyNotFound", JoinHint(MapKeys(d)))
             ELSE StrValue(d[section][key])

get_value_as_string(d, key_path) ==
  LET dot_pos == find(key_path, ".")
  IN IF dot_pos = npos THEN Failure("MalformedPath", << >>)
     ELSE LET section == substr(key_path, 0, dot_pos)
              key == substr_from(key_path, dot_pos + 1)
          IN IF section = << >> \/ key = << >>
             THEN Failure("EmptyPathComponent", << >>)
             ELSE IF section \notin DOMAIN d
             THEN Failure("SectionNotFound", JoinHint(MapKeys(d)))
             ELSE IF key \notin DOMAIN d[section]
             THEN Failure("KeyNotFound", JoinHint(MapKeys(d[section])))
             ELSE StrValue(d[section][key])

Digits == << "0", "1", "2", "3", "4", "5", "6", "7", "8", "9" >>

IsDigit(c) == \E i \in 1..Len(Digits) : Digits[i] = c

DigitValue(c) == (CHOOSE i \in 1..Len(Digits) : Digits[i] = c) - 1

\* the range of int
IntMax == 2147483647
IntMin == -IntMax - 1

Overflow == 1

\* minus the number a run of decimal digits denotes, or Overflow when that is
\* below IntMin (the digits are accumulated without leaving the range)
RECURSIVE NegDigitsValue(_)
NegDigitsValue(s) ==
  IF s = << >> THEN 0
  ELSE LET p == NegDigitsValue(SubSeq(s, 1, Len(s) - 1))
           d == DigitValue(s[Len(s)])
       IN IF p = Overflow THEN Overflow
          ELSE IF p < (IntMin + d + 9) \div 10 THEN Overflow
          ELSE 10 * p - d

\* std::stoi(str): skips leading white space, takes an optional sign and the
\* longest run of digits, ignores what follows; throws invalid_argument if
\* there is no digit and out_of_range if the number does not fit an int
stoi(str) ==
  LET start == find_first_not_of(str, {" ", "\t", "\n", "\r", "\f"})
      rest == IF start = npos THEN << >> ELSE substr_from(str, start)
      signed == rest # << >> /\ rest[1] \in {"+", "-"}
      negative == signed /\ rest[1] = "-"
      body == IF signed THEN Tail(rest) ELSE rest
      stop == IF \E i \in 1..Len(body) : ~IsDigit(body[i])
              THEN (CHOOSE i \in 1..Len(body) :
                      ~IsDigit(body[i])
                      /\ \A j \in 1..(i - 1) : IsDigit(body[j])) - 1
              ELSE Len(body)
      neg == NegDigitsValue(SubSeq(body, 1, stop))
  IN IF stop = 0 THEN [exc |-> "invalid_argument", value |-> 0]
     ELSE IF neg = Overflow \/ (~negative /\ neg = IntMin)
          THEN [exc |-> "out_of_range", value |-> 0]
          ELSE [exc |-> "none", value |-> IF negative THEN neg ELSE -neg]

\* convert_value<int>
convert_value_int(str) ==
  LET r == stoi(str)
  IN IF r.exc # "none" THEN Failure("ConversionError", << >>)
     ELSE IntValue(r.value)

\* convert_value<std::string>
convert_value_string(str) == StrValue(str)

UpperCase ==
  << "A", "B", "C", "D", "E", "F", "G", "H", "I", "J", "K", "L", "M",
     "N", "O", "P", "Q", "R", "S", "T", "U", "V", "W", "X", "Y", "Z" >>

LowerCase ==
  << "a", "b", "c", "d", "e", "f", "g", "h", "i", "j", "k", "l", "m",
     "n", "o", "p", "q", "r", "s", "t", "u", "v", "w", "x", "y", "z" >>

\* std::tolower in the "C" locale, on ASCII
tolower(c) ==
  IF \E i \in 1..Len(UpperCase) : UpperCase[i] = c
  THEN LowerCase[CHOOSE i \in 1..Len(UpperCase) : UpperCase[i] = c]
  ELSE c

\* convert_value<bool> comparing str itself, not lower-cased
convert_value_bool_cased(str) ==
  IF \/ str = << "t", "r", "u", "e" >>
     \/ str = << "1" >>
     \/ str = << "y", "e", "s" >>
     \/ str = << "o", "n" >>
  THEN BoolValue(TRUE)
  ELSE IF \/ str = << "f", "a", "l", "s", "e" >>
          \/ str = << "0" >>
          \/ str = << "n", "o" >>
          \/ str = << "o", "f", "f" >>
       THEN BoolValue(FALSE)
       ELSE Failure("ConversionError", << >>)

\* convert_value<bool>
convert_value_bool(str) ==
  LET lower == [i \in 1..Len(str) |-> tolower(str[i])]
  IN IF \/ lower = << "t", "r", "u", "e" >>
        \/ lower = << "1" >>
        \/ lower = << "y", "e", "s" >>
        \/ lower = << "o", "n" >>
     THEN BoolValue(TRUE)
     ELSE IF \/ lower = << "f", "a", "l", "s", "e" >>
             \/ lower = << "0" >>
             \/ lower = << "n", "o" >>
             \/ lower = << "o", "f", "f" >>
          THEN BoolValue(FALSE)
          ELSE Failure("ConversionError", << >>)

\* the instantiations of get_value<T> the model covers
Types == {"int", "string", "bool"}

convert_value(T, str) ==
  IF T = "int" THEN convert_value_int(str)
  ELSE IF T = "bool" THEN convert_value_bool(str)
  ELSE convert_value_string(str)

\* get_value<T>(key_path): the value returned or the error thrown
get_value(T, d, key_path) ==
  LET str_value == get_value_as_string(d, key_path)
  IN IF str_value.kind # "ok" THEN str_value
     ELSE convert_value(T, str_value.str)

\* data_after_get_value with the section looked up by data[section]
data_after_get_value_indexed(d, key_path) ==
  LET dot_pos == find(key_path, ".")
  IN IF dot_pos = npos THEN d
     ELSE IF substr(key_path, 0, dot_pos) = << >>
             \/ substr_from(key_path, dot_pos + 1) = << >>
     THEN d
     ELSE MapIndex(d, substr(key_path, 0, dot_pos), EmptyMap)

\* what get_value<T>(key_path) leaves in data: the lookups use find, which
\* inserts nothing
data_after_get_value(d, key_path) == d

\* the paths the caller asks for
Paths ==
  { << "a", ".", "k" >>,
    << "a", ".", "b", ".", "k" >>,
    << "b", ".", "k" >>,
    << "a", ".", "z" >>,
    << "c", ".", "k" >>,
    << "a", "k" >>,
    << ".", "k" >>,
    << "a", "." >>,
    << "S", "e", "c", "t", "i", "o", "n", "1", ".", "v", "a", "r", "1" >>,
    << "S", "e", "c", "t", "i", "o", "n", "1", ".", "v", "a", "r", "2" >>,
    << "S", "e", "c", "t", "i", "o", "n", "2", ".", "v", "a", "r", "1" >>,
    << "S", "e", "c", "t", "i", "o", "n", "2", ".", "v", "a", "r", "2" >> }

\* the paths asked for as int and as bool as well
TypedPaths ==
  { << "a", ".", "k" >>,
    << "a", ".", "z" >>,
    << "S", "e", "c", "t", "i", "o", "n", "1", ".", "v", "a", "r", "1" >> }

\* the calls get_value<T>(key_path) of the model
Queries ==
  { << "string", p >> : p \in Paths }
    \cup { << T, p >> : T \in Types \ {"string"}, p \in TypedPaths }

NoQuery == [type |-> "none", path |-> << >>, res |-> NoValue]

-----------------------------------------------------------------------------
(* The program: main constructs the parser, then queries it *)

Init ==
  /\ pc = "start"
  /\ source = "none"
  /\ use_default_config = FALSE
  /\ nread = 0
  /\ raw = << >>
  /\ trimmed = << >>
  /\ line_num = 0
  /\ current_section = << >>
  /\ data = EmptyMap
  /\ err = NoError
  /\ stored = EmptyMap
  /\ written = << >>
  /\ q = NoQuery

\* Thrown with the error caught inside the constructor, which then returns
\* the parser as built so far
Thrown_caught(e) ==
  /\ pc' = "done"
  /\ err' = e
  /\ UNCHANGED << data, current_section >>

\* an ini_parser_error leaves the constructor: the members are destroyed and
\* the caller holds no parser
Thrown(e) ==
  /\ pc' = "error"
  /\ err' = e
  /\ data' = EmptyMap
  /\ current_section' = << >>

\* ini_parser::ini_parser up to the call of parse_file
Open ==
  /\ pc = "start"
  /\ \E exists \in BOOLEAN, create_default \in BOOLEAN :
       IF exists
       THEN /\ pc' = "parsing"
            /\ source' = "file"
            /\ UNCHANGED << use_default_config, data, err, current_section >>
       ELSE IF create_default
       THEN /\ pc' = "parsing"
            /\ source' = "default"
            /\ use_default_config' = TRUE
            /\ UNCHANGED << data, err, current_section >>
       ELSE /\ Thrown(ini_parser_error("SourceUnavailable", -1))
            /\ UNCHANGED << source, use_default_config >>
  /\ UNCHANGED << nread, raw, trimmed, line_num, stored, written, q >>

\* one iteration of parse_file's loop, the stream yielding a line of S
ReadLineFrom(S) ==
  /\ pc = "parsing"
  /\ \E l \in S :
       \E o \in { parse_line(l, line_num, current_section, data) } :
          /\ nread' = nread + 1
          /\ raw' = l
          /\ trimmed' = trim(l)
          /\ line_num' = o.line_num
          /\ IF o.err = NoError
             THEN /\ current_section' = o.current_section
                  /\ data' = o.data
                  /\ stored' = [x \in DOMAIN stored \cup DOMAIN o.wrote |->
                                  IF x \in DOMAIN o.wrote THEN o.wrote[x]
                                  ELSE stored[x]]
                  /\ UNCHANGED << pc, err >>
             ELSE /\ Thrown(o.err)
                  /\ UNCHANGED stored
  /\ UNCHANGED << source, use_default_config, written, q >>

ReadLine == ReadLineFrom(NextLines)

\* std::getline fails, leaving line empty, and parse_file returns: its local
\* current_section is gone (line_num is kept as the count parse_file reached)
EndOfStream ==
  /\ pc = "parsing"
  /\ AtEnd
  /\ pc' = IF source = "default" THEN "creating" ELSE "done"
  /\ raw' = << >>
  /\ trimmed' = << >>
  /\ current_section' = << >>
  /\ UNCHANGED << source, use_default_config, nread, line_num,
                  data, err, stored, written, q >>

\* create_default_config(filename), called by the constructor
CreateDefaultConfig ==
  /\ pc = "creating"
  /\ \E opened \in BOOLEAN :
       IF opened
       THEN /\ written' = ScaffoldText
            /\ pc' = "done"
            /\ UNCHANGED << data, err, current_section >>
       ELSE /\ Thrown(ini_parser_error("CannotCreateConfig", -1))
            /\ UNCHANGED written
  /\ UNCHANGED << source, use_default_config, nread, raw, trimmed, line_num,
                  stored, q >>

\* parser.get_value<T>(key_path) on the constructed parser
Call(T, key_path) ==
  /\ pc = "done"
  /\ q' = [type |-> T, path |-> key_path, res |-> get_value(T, data, key_path)]
  /\ data' = data_after_get_value(data, key_path)
  /\ UNCHANGED << pc, source, use_default_config, nread, raw, trimmed, line_num,
                  current_section, err, stored, written >>

GetValue == \E call \in Queries : Call(call[1], call[2])

Next ==
  \/ Open
  \/ ReadLine
  \/ EndOfStream
  \/ CreateDefaultConfig
  \/ GetValue

Spec == Init /\ [][Next]_vars

\* the loop of parse_file goes on: std::getline returns; a file is finite, so
\* its stream comes to its end, and the stream over the default text yields
\* each of its lines and then its end
FairSpec ==
  /\ Spec
  /\ WF_vars(EndOfStream)
  /\ WF_vars(source = "default" /\ ReadLine)

-----------------------------------------------------------------------------
(* The conversions on their own: the parser has read a file of the two lines
   [s] and k=<value>, and the caller reads s.k as every type *)

ValueChars ==
  { "0", "1", "5", "-", "+", ".", "a", "o", "n", "O", "N", " ", "\r" }

RECURSIVE StringsUpTo(_)
StringsUpTo(n) ==
  IF n = 0 THEN { << >> }
  ELSE LET S == StringsUpTo(n - 1)
       IN S \cup { Append(x, c) : x \in { y \in S : Len(y) = n - 1 },
                                  c \in ValueChars }

LongValues ==
  { << "2", "1", "4", "7", "4", "8", "3", "6", "4", "7" >>,
    << "2", "1", "4", "7", "4", "8", "3", "6", "4", "8" >>,
    << "-", "2", "1", "4", "7", "4", "8", "3", "6", "4", "8" >>,
    << "-", "2", "1", "4", "7", "4", "8", "3", "6", "4", "9" >>,
    << "9", "9", "9", "9", "9", "9", "9", "9", "9", "9", "9", "9" >>,
    << "0", "0", "0", "0", "0", "0", "0", "0", "0", "0", "4", "2" >>,
    << "5", "a", "b", "c" >>,
    << "a", "b", "c" >>,
    << "1", "2", ".", "5" >>,
    << "t", "r", "u", "e" >>,
    << "T", "R", "U", "E" >>,
    << "T", "r", "u", "e" >>,
    << "t", "r", "u" >>,
    << "t", "r", "u", "e", "1" >>,
    << "f", "a", "l", "s", "e" >>,
    << "F", "a", "L", "s", "E" >>,
    << "f", "a", "l", "s", "e", "s" >>,
    << "y", "e", "s" >>,
    << "Y", "E", "S" >>,
    << "y", "e", "s", " ", "n", "o" >>,
    << "o", "f", "f" >>,
    << "O", "f", "f" >>,
    << "O", "F", "F" >>,
    << "m", "a", "y", "b", "e" >> }

ValueTexts == StringsUpTo(MaxValueLen) \cup LongValues

InitConv ==
  \E v \in ValueTexts :
    LET o1 == parse_line(<< "[", "s", "]" >>, 0, << >>, EmptyMap)
        o2 == parse_line(<< "k", "=" >> \o v, o1.line_num,
                         o1.current_section, o1.data)
    IN /\ o2.err = NoError
       /\ pc = "done"
       /\ source = "file"
       /\ use_default_config = FALSE
       /\ nread = 2
       /\ raw = << >>
       /\ trimmed = << >>
       /\ line_num = o2.line_num
       /\ current_section = << >>
       /\ data = o2.data
       /\ err = NoError
       /\ stored = o2.wrote
       /\ written = << >>
       /\ q = NoQuery

GetStored == \E T \in Types : Call(T, << "s", ".", "k" >>)

SpecConv == InitConv /\ [][GetStored]_vars

-----------------------------------------------------------------------------
(* One line on its own: parse_file has read three lines of a file and reads
   a fourth, composed freely *)

LineChars == { " ", "\t", "\r", "[", "]", "=", ";", ".", "a" }

RECURSIVE StringsOver(_, _)
StringsOver(chars, n) ==
  IF n = 0 THEN { << >> }
  ELSE LET S == StringsOver(chars, n - 1)
       IN S \cup { Append(x, c) : x \in { y \in S : Len(y) = n - 1 },
                                  c \in chars }

AnyLines == StringsOver(LineChars, MaxLineLen)

\* the lines read before
Prefixes ==
  { << << >>, << ";" >>, << " " >> >>,
    << << "[", "s", "]" >>, << "k", "=", "5" >>, << >> >>,
    << << "[", "s", "]" >>, << "k", "=", "5" >>, << "[", "t", "]" >> >> }

\* parse_file's state after the lines, none of which fails
RECURSIVE AfterLines(_)
AfterLines(lines) ==
  IF lines = << >>
  THEN [line_num |-> 0, current_section |-> << >>, data |-> EmptyMap,
        stored |-> EmptyMap]
  ELSE LET before == AfterLines(SubSeq(lines, 1, Len(lines) - 1))
           o == parse_line(lines[Len(lines)], before.line_num,
                           before.current_section, before.data)
       IN [line_num |-> o.line_num, current_section |-> o.current_section,
           data |-> o.data,
           stored |-> [x \in DOMAIN before.stored \cup DOMAIN o.wrote |->
                         IF x \in DOMAIN o.wrote THEN o.wrote[x]
                         ELSE before.stored[x]]]

InitLine ==
  \E lines \in Prefixes :
    LET st == AfterLines(lines)
    IN /\ pc = "parsing"
       /\ source = "file"
       /\ use_default_config = FALSE
       /\ nread = Len(lines)
       /\ raw = lines[Len(lines)]
       /\ trimmed = trim(lines[Len(lines)])
       /\ line_num = st.line_num
       /\ current_section = st.current_section
       /\ data = st.data
       /\ err = NoError
       /\ stored = st.stored
       /\ written = << >>
       /\ q = NoQuery

ReadAnyLine ==
  /\ \E lines \in Prefixes : nread = Len(lines)
  /\ ReadLineFrom(AnyLines)

SpecLine == InitLine /\ [][ReadAnyLine]_vars

-----------------------------------------------------------------------------
(* The vocabulary of the properties, stated from the format's rules *)

Blank == {" ", "\t"}

WhiteSpace == {" ", "\t", "\n", "\r", "\f"}

\* s without its leading and trailing spaces and tabs
RECURSIVE Strip(_)
Strip(s) ==
  IF s = << >> THEN << >>
  ELSE IF Head(s) \in Blank THEN Strip(Tail(s))
  ELSE IF s[Len(s)] \in Blank THEN Strip(SubSeq(s, 1, Len(s) - 1))
  ELSE s

Contains(s, c) == \E i \in 1..Len(s) : s[i] = c

\* the part of s before the first c, and the part after it
RECURSIVE Before(_, _)
Before(s, c) ==
  IF s = << >> \/ Head(s) = c THEN << >> ELSE << Head(s) >> \o Before(Tail(s), c)

RECURSIVE After(_, _)
After(s, c) ==
  IF s = << >> THEN << >>
  ELSE IF Head(s) = c THEN Tail(s) ELSE After(Tail(s), c)

IsSkipped(l)      == Strip(l) = << >> \/ Strip(l)[1] = ";"
IsHeaderLine(l)   == Strip(l) # << >> /\ Strip(l)[1] = "["
IsKeyValueLine(l) == Strip(l) # << >> /\ Strip(l)[1] \notin {";", "["}

\* the name a header line declares
HeaderName(l) == Strip(SubSeq(Strip(l), 2, Len(Strip(l)) - 1))

\* the key and the value of a key-value line
LineKey(l)   == Strip(Before(Strip(l), "="))
LineValue(l) == Strip(After(Strip(l), "="))

\* the rule a line violates, given whether a section has been declared
Defect(l, inSection) ==
  IF IsSkipped(l) THEN "none"
  ELSE IF IsHeaderLine(l)
  THEN IF Strip(l)[Len(Strip(l))] # "]" THEN "MalformedSection"
       ELSE IF HeaderName(l) = << >> THEN "EmptySectionName"
       ELSE IF \E i \in 1..Len(HeaderName(l)) : HeaderName(l)[i] \in WhiteSpace
       THEN "NameContainsWhitespace"
       ELSE "none"
  ELSE IF ~inSection THEN "KeyValueOutsideSection"
  ELSE IF ~Contains(Strip(l), "=") THEN "MissingEquals"
  ELSE IF LineKey(l) = << >> THEN "EmptyKey"
  ELSE IF \E i \in 1..Len(LineKey(l)) : LineKey(l)[i] \in WhiteSpace
  THEN "NameContainsWhitespace"
  ELSE "none"

\* a step that reads one line
ReadsLine == nread' = nread + 1

-----------------------------------------------------------------------------
(* C1..C5: parsing *)

\* C1: once parse has accepted the input, get_raw of section + "." + key
\* returns the value last written for every (section, key) pair that a
\* key-value line stored, whatever characters the names contain.
C1_LastWriteIsRead ==
  pc = "done" =>
    \A sk \in DOMAIN stored :
      get_value_as_string(data, sk[1] \o << "." >> \o sk[2]) = StrValue(stored[sk])

\* C2: once a line has failed validation the caller holds only the error: no
\* Document is left to query, no query has been answered, the line that
\* failed is the last one read, and nothing more happens.
C2_ErrorOnly ==
  err # NoError =>
    /\ pc = "error"
    /\ data = EmptyMap
    /\ q = NoQuery
    /\ err.line # -1 => nread = err.line
    /\ ~ENABLED Next

C2_Witness ==
  /\ pc = "error"
  /\ err.kind = "MissingEquals"
  /\ err.line = 3
  /\ stored # EmptyMap
  /\ data = EmptyMap

\* C3: a line that is neither blank, nor a comment, nor a header, read while
\* no section has been declared, fails with KeyValueOutsideSection and its
\* own 1-based number, whatever else is wrong with it.
C3_KeyValueOutsideSection ==
  [][ (ReadsLine /\ DOMAIN data = {} /\ IsKeyValueLine(raw'))
        => /\ pc' = "error"
           /\ err' = [kind |-> "KeyValueOutsideSection", line |-> nread'] ]_vars

C3_Witness ==
  /\ pc = "error"
  /\ err = [kind |-> "KeyValueOutsideSection", line |-> 2]
  /\ raw = << "k", "5" >>

\* C4: every line read advances the counter by one; parse fails at a line
\* exactly when that line violates a rule, no earlier line having failed,
\* and the error then carries the violated rule and the line's 1-based index.
C4_ErrorLineNumber ==
  [][ ReadsLine
        => /\ err = NoError
           /\ line_num' = nread'
           /\ (pc' = "error") = (Defect(raw', DOMAIN data # {}) # "none")
           /\ pc' = "error"
                => err' = [kind |-> Defect(raw', DOMAIN data # {}),
                           line |-> nread'] ]_vars

C4_Witness ==
  /\ pc = "error"
  /\ err = [kind |-> "NameContainsWhitespace", line |-> 4]
  /\ raw = << "[", "a", " ", "b", "]" >>

\* C5: a header that names a section already in the Document changes no
\* section, key or value and makes that section current; a key-value line
\* then stored goes to the current section and keeps every other key.
C5_RedeclareKeepsKeys ==
  [][ /\ (ReadsLine /\ IsHeaderLine(raw') /\ HeaderName(raw') \in DOMAIN data)
        => /\ data' = data
           /\ current_section' = HeaderName(raw')
           /\ pc' = "parsing"
      /\ (ReadsLine /\ IsKeyValueLine(raw') /\ pc' = "parsing")
        => /\ current_section' = current_section
           /\ DOMAIN data' = DOMAIN data
           /\ \A s \in DOMAIN data :
                /\ DOMAIN data[s] \subseteq DOMAIN data'[s]
                /\ \A k \in DOMAIN data[s] :
                     (s # current_section \/ k # LineKey(raw'))
                       => data'[s][k] = data[s][k]
           /\ data'[current_section][LineKey(raw')] = LineValue(raw') ]_vars

C5_Witness ==
  /\ pc = "parsing"
  /\ nread = 3
  /\ raw = << "[", "a", "]" >>
  /\ current_section = << "a" >>
  /\ DOMAIN data = { << "a" >> }
  /\ DOMAIN data[<< "a" >>] = { << "k" >> }
  /\ data[<< "a" >>][<< "k" >>] = << "5" >>

-----------------------------------------------------------------------------
(* C6, C7: the conversions, under SpecConv *)

\* the value stored for s.k
TheValue == data[<< "s" >>][<< "k" >>]

DigitChars == {"0", "1", "2", "3", "4", "5", "6", "7", "8", "9"}

\* s is an optional sign followed by one or more decimal digits
Unsigned(s) == IF s # << >> /\ s[1] \in {"-", "+"} THEN Tail(s) ELSE s

IsIntLiteral(s) ==
  /\ Unsigned(s) # << >>
  /\ \A i \in 1..Len(Unsigned(s)) : Unsigned(s)[i] \in DigitChars

RECURSIVE DropZeros(_)
DropZeros(s) ==
  IF s # << >> /\ Head(s) = "0" THEN DropZeros(Tail(s)) ELSE s

\* a <= b for two runs of digits of the same length
RECURSIVE DigitsLeq(_, _)
DigitsLeq(a, b) ==
  IF a = << >> THEN TRUE
  ELSE IF Head(a) # Head(b) THEN DigitValue(Head(a)) < DigitValue(Head(b))
  ELSE DigitsLeq(Tail(a), Tail(b))

\* the literal s denotes a number an int can hold
FitsInt(s) ==
  LET m == DropZeros(Unsigned(s))
      limit == IF s[1] = "-"
               THEN << "2", "1", "4", "7", "4", "8", "3", "6", "4", "8" >>
               ELSE << "2", "1", "4", "7", "4", "8", "3", "6", "4", "7" >>
  IN Len(m) < Len(limit) \/ (Len(m) = Len(limit) /\ DigitsLeq(m, limit))

\* the number a literal of fewer than ten digits denotes
RECURSIVE Magnitude(_)
Magnitude(m) ==
  IF m = << >> THEN 0
  ELSE 10 * Magnitude(SubSeq(m, 1, Len(m) - 1)) + DigitValue(m[Len(m)])

LiteralValue(s) ==
  IF s[1] = "-" THEN -Magnitude(DropZeros(Unsigned(s)))
  ELSE Magnitude(DropZeros(Unsigned(s)))

\* C6: get_typed<int> returns the number when the whole raw value is a
\* base-10 signed integer an int can hold, and fails with ConversionError for
\* every other raw value.
C6_IntWholeValue ==
  q.type = "int" =>
    IF IsIntLiteral(TheValue) /\ FitsInt(TheValue)
    THEN /\ q.res.kind = "ok"
         /\ Len(DropZeros(Unsigned(TheValue))) < 10
              => q.res.int = LiteralValue(TheValue)
    ELSE q.res.kind = "ConversionError"

\* letters and their capitals
Capital ==
  { << "t", "T" >>, << "r", "R" >>, << "u", "U" >>, << "e", "E" >>,
    << "y", "Y" >>, << "s", "S" >>, << "o", "O" >>, << "n", "N" >>,
    << "f", "F" >>, << "a", "A" >>, << "l", "L" >> }

\* v is the token up to the case of its letters
SameUpToCase(v, token) ==
  /\ Len(v) = Len(token)
  /\ \A i \in 1..Len(v) : v[i] = token[i] \/ << token[i], v[i] >> \in Capital

TrueTokens ==
  { << "t", "r", "u", "e" >>, << "1" >>, << "y", "e", "s" >>, << "o", "n" >> }

FalseTokens ==
  { << "f", "a", "l", "s", "e" >>, << "0" >>, << "n", "o" >>, << "o", "f", "f" >> }

\* C7: get_typed<bool> returns true exactly for the true-tokens and false
\* exactly for the false-tokens, compared without regard to ASCII case, and
\* fails with ConversionError for every other raw value.
C7_BoolTokens ==
  q.type = "bool" =>
    IF \E t \in TrueTokens : SameUpToCase(TheValue, t)
    THEN q.res = BoolValue(TRUE)
    ELSE IF \E t \in FalseTokens : SameUpToCase(TheValue, t)
    THEN q.res = BoolValue(FALSE)
    ELSE q.res = Failure("ConversionError", << >>)

C7_Witness ==
  /\ q.type = "bool"
  /\ TheValue = << "F", "a", "L", "s", "E" >>
  /\ q.res = BoolValue(FALSE)

-----------------------------------------------------------------------------
(* C8..C10: queries, under Spec *)

\* the names a hint lists: its parts between the separators ", "
RECURSIVE HintNames(_)
HintNames(h) ==
  IF h = << >> THEN {}
  ELSE IF \E i \in 1..(Len(h) - 1) : h[i] = "," /\ h[i + 1] = " "
  THEN LET i == CHOOSE i \in 1..(Len(h) - 1) :
                  /\ h[i] = "," /\ h[i + 1] = " "
                  /\ \A j \in 1..(i - 1) : ~(h[j] = "," /\ h[j + 1] = " ")
       IN { SubSeq(h, 1, i - 1) } \cup HintNames(SubSeq(h, i + 2, Len(h)))
  ELSE { h }

\* the path has a '.', with something before the first one and after it
WellFormedPath(p) ==
  Contains(p, ".") /\ Before(p, ".") # << >> /\ After(p, ".") # << >>

\* C8: a query for a section that is not in the Document fails with
\* SectionNotFound and lists exactly the Document's section names; a query
\* for a missing key of a section that is there fails with KeyNotFound and
\* lists exactly that section's keys.
C8_MissListsAlternatives ==
  (q.type # "none" /\ WellFormedPath(q.path)) =>
    LET section == Before(q.path, ".")
        key == After(q.path, ".")
    IN /\ section \notin DOMAIN data
            => /\ q.res.kind = "SectionNotFound"
               /\ HintNames(q.res.hint) = DOMAIN data
       /\ (section \in DOMAIN data /\ key \notin DOMAIN data[section])
            => /\ q.res.kind = "KeyNotFound"
               /\ HintNames(q.res.hint) = DOMAIN data[section]

C8_Witness ==
  /\ q.path = << "a", ".", "z" >>
  /\ q.res = Failure("KeyNotFound", << "k" >>)
  /\ DOMAIN data = { << "a" >>, << "b" >> }
  /\ DOMAIN data[<< "b" >>] = { << "b", ".", "k" >> }

\* C9: a path without '.' fails with MalformedPath; a path with nothing
\* before its first '.' or nothing after it fails with EmptyPathComponent,
\* whatever the Document holds; otherwise the part before the first '.' is
\* the section and all the rest, dots included, is the key looked up.
C9_PathSplit ==
  q.type # "none" =>
    IF ~Contains(q.path, ".") THEN q.res = Failure("MalformedPath", << >>)
    ELSE IF ~WellFormedPath(q.path)
    THEN q.res = Failure("EmptyPathComponent", << >>)
    ELSE LET section == Before(q.path, ".")
             key == After(q.path, ".")
             found == section \in DOMAIN data /\ key \in DOMAIN data[section]
         IN /\ q.res.kind \notin {"MalformedPath", "EmptyPathComponent"}
            /\ found = (q.res.kind \in {"ok", "ConversionError"})
            /\ (found /\ q.type = "string")
                 => q.res = StrValue(data[section][key])

C9_Witness ==
  /\ q.type = "string"
  /\ q.path = << "a", ".", "b", ".", "k" >>
  /\ q.res = StrValue(<< "x" >>)
  /\ << "a", ".", "b" >> \in DOMAIN data

\* C10: once the parser is constructed no step changes the Document, and a
\* query just answered, asked again, has the same outcome.
C10_QueriesChangeNothing ==
  [][ pc = "done"
        => /\ pc' = "done"
           /\ data' = data
           /\ q' # q => q'.res = get_value(q'.type, data', q'.path) ]_vars

C10_Witness ==
  /\ q.type = "int"
  /\ q.path = << "a", ".", "z" >>
  /\ q.res.kind = "SectionNotFound"
  /\ DOMAIN data = { << "b" >> }
  /\ DOMAIN data[<< "b" >>] = { << "k" >> }

-----------------------------------------------------------------------------
(* C11..C19 *)

HasWhiteSpace(s) == \E i \in 1..Len(s) : s[i] \in WhiteSpace

\* C11: in every state, every section name and every key of the Document is
\* non-empty and free of white space, and no stored value starts or ends
\* with a space or a tab.
C11_CleanNamesAndValues ==
  \A s \in DOMAIN data :
    /\ s # << >>
    /\ ~HasWhiteSpace(s)
    /\ \A k \in DOMAIN data[s] :
         /\ k # << >>
         /\ ~HasWhiteSpace(k)
         /\ data[s][k] # << >>
              => /\ data[s][k][1] \notin Blank
                 /\ data[s][k][Len(data[s][k])] \notin Blank

C11_Witness ==
  /\ pc = "done"
  /\ DOMAIN data = { << "b" >> }
  /\ DOMAIN data[<< "b" >>] = { << "k" >>, << "z" >> }
  /\ data[<< "b" >>][<< "k" >>] = << "o", "n" >>

\* C12: an accepted header puts its section into the Document, empty if it
\* is new, and no later line removes a section; a query for a key of an
\* empty section fails with KeyNotFound and an empty list of keys, and a
\* SectionNotFound hint names the empty sections too.
C12_EmptySectionIsPresent ==
  [][ /\ (ReadsLine /\ IsHeaderLine(raw') /\ pc' = "parsing")
        => /\ HeaderName(raw') \in DOMAIN data'
           /\ HeaderName(raw') \notin DOMAIN data
                => data'[HeaderName(raw')] = EmptyMap
      /\ pc' # "error" => DOMAIN data \subseteq DOMAIN data'
      /\ (q' # q /\ WellFormedPath(q'.path))
        => /\ ( /\ Before(q'.path, ".") \in DOMAIN data
                /\ data[Before(q'.path, ".")] = EmptyMap )
              => q'.res = Failure("KeyNotFound", << >>)
           /\ q'.res.kind = "SectionNotFound"
              => \A s \in DOMAIN data :
                   data[s] = EmptyMap => s \in HintNames(q'.res.hint) ]_vars

C12_Witness ==
  /\ pc = "done"
  /\ DOMAIN data = { << "a" >>, << "b" >> }
  /\ data[<< "a" >>] = EmptyMap
  /\ data[<< "b" >>] # EmptyMap
  /\ q.path = << "a", ".", "k" >>
  /\ q.res = Failure("KeyNotFound", << >>)

Section1 == << "S", "e", "c", "t", "i", "o", "n", "1" >>
Section2 == << "S", "e", "c", "t", "i", "o", "n", "2" >>
Var1 == << "v", "a", "r", "1" >>
Var2 == << "v", "a", "r", "2" >>

\* the Document the default configuration stands for
DefaultDocument ==
  [s \in {Section1, Section2} |->
     [k \in {Var1, Var2} |->
        IF s = Section1
        THEN IF k = Var1 THEN << "5" >>
             ELSE << "U+041F", "U+0440", "U+0438", "U+0432", "U+0435", "U+0442", ",", " ", "U+043C", "U+0438", "U+0440", "!" >>
        ELSE IF k = Var1 THEN << "4", "2" >>
             ELSE << "U+0422", "U+0435", "U+0441", "U+0442", "U+043E", "U+0432", "U+0430", "U+044F", " ", "U+0441", "U+0442", "U+0440", "U+043E", "U+043A", "U+0430" >>]]

\* C14: when the file is missing, the built-in configuration parses without
\* error into exactly Section1 and Section2 with var1 and var2 each and the
\* four values, and the text written to the new file is the text parsed.
C14_DefaultDocument ==
  source = "default" =>
    /\ err.kind \in {"none", "CannotCreateConfig"}
    /\ pc \in {"creating", "done"} => data = DefaultDocument
    /\ pc = "done" => written = DefaultConfigText
    /\ (pc = "done" /\ q.type = "string" /\ WellFormedPath(q.path)
        /\ Before(q.path, ".") \in DOMAIN DefaultDocument
        /\ After(q.path, ".") \in DOMAIN DefaultDocument[Before(q.path, ".")])
         => q.res = StrValue(DefaultDocument[Before(q.path, ".")]
                                            [After(q.path, ".")])

C14_Witness ==
  /\ source = "default"
  /\ pc = "done"
  /\ written # << >>
  /\ q.type = "string"
  /\ q.path = Section2 \o << "." >> \o Var2
  /\ q.res = StrValue(DefaultDocument[Section2][Var2])

\* C15: a line whose first character after trimming is '[' is a section
\* header and never a key-value line: without a closing ']' as its last
\* character the parse fails with MalformedSection, whatever else the line
\* contains; else the trimmed text between the two brackets is the name, an
\* empty name fails with EmptySectionName, a name with a whitespace character
\* with NameContainsWhitespace, and only a valid name becomes the current
\* section and a section of the Document.
C15_HeaderLine ==
  [][ (ReadsLine /\ IsHeaderLine(raw')) =>
        LET t == Strip(raw')
            name == Strip(SubSeq(t, 2, Len(t) - 1))
            kind == IF t[Len(t)] # "]" THEN "MalformedSection"
                    ELSE IF name = << >> THEN "EmptySectionName"
                    ELSE IF HasWhiteSpace(name) THEN "NameContainsWhitespace"
                    ELSE "none"
        IN /\ err'.kind = kind
           /\ stored' = stored
           /\ kind = "none" =>
                /\ pc' = "parsing"
                /\ current_section' = name
                /\ DOMAIN data' = DOMAIN data \cup {name}
                /\ \A s \in DOMAIN data : data'[s] = data[s]
           /\ kind # "none" =>
                /\ pc' = "error"
                /\ err'.line = line_num + 1 ]_vars

\* a header followed by a carriage return is rejected
C15_Witness ==
  /\ pc = "error"
  /\ raw = << "[", "a", "]", "\r" >>
  /\ err.kind = "MalformedSection"
  /\ nread = 4

\* C16: for a key-value line read inside a section only the first '=' is
\* the delimiter: without '=' the parse fails with MissingEquals; else with
\* EmptyKey when the trimmed text before the first '=' is empty; else with
\* NameContainsWhitespace when it holds a whitespace character; otherwise
\* the key is stored in the current section with the trimmed text after the
\* first '=' as its value, later '=' and ';' included, an empty value too.
C16_KeyValueLine ==
  [][ (ReadsLine /\ IsKeyValueLine(raw') /\ current_section # << >>) =>
        LET t == Strip(raw')
            key == Strip(Before(t, "="))
            value == Strip(After(t, "="))
            cs == current_section
            kind == IF ~Contains(t, "=") THEN "MissingEquals"
                    ELSE IF key = << >> THEN "EmptyKey"
                    ELSE IF HasWhiteSpace(key) THEN "NameContainsWhitespace"
                    ELSE "none"
        IN /\ err'.kind = kind
           /\ kind = "none" =>
                /\ pc' = "parsing"
                /\ current_section' = cs
                /\ DOMAIN data' = DOMAIN data \cup {cs}
                /\ \A s \in DOMAIN data \ {cs} : data'[s] = data[s]
                /\ DOMAIN data'[cs] =
                     (IF cs \in DOMAIN data THEN DOMAIN data[cs] ELSE {})
                       \cup {key}
                /\ data'[cs][key] = value
                /\ \A k \in DOMAIN data'[cs] \ {key} : data'[cs][k] = data[cs][k]
                /\ stored'[<< cs, key >>] = value
           /\ kind # "none" =>
                /\ pc' = "error"
                /\ err'.line = line_num + 1
                /\ stored' = stored ]_vars

\* a value that keeps its later '=' and its ';'
C16_Witness ==
  /\ pc = "parsing"
  /\ raw = << "a", "=", "=", ";" >>
  /\ current_section = << "t" >>
  /\ data[<< "t" >>] = [k \in {<< "a" >>} |-> << "=", ";" >>]
  /\ << "k" >> \in DOMAIN data[<< "s" >>]

\* C17: a line that is empty after trimming, or whose first character after
\* trimming is ';', raises no error and leaves the Document and the current
\* section as they were, before the first header as well as between keys;
\* it only advances the line counter.  A ';' anywhere else does not make the
\* line a comment: the line is still a header or a key-value line.
C17_BlankAndCommentLines ==
  [][ /\ (ReadsLine /\ IsSkipped(raw')) =>
            /\ pc' = pc
            /\ err' = err
            /\ data' = data
            /\ current_section' = current_section
            /\ stored' = stored
            /\ line_num' = line_num + 1
      /\ (ReadsLine /\ ~IsSkipped(raw') /\ Contains(raw', ";")) =>
            /\ err'.kind = Defect(raw', current_section # << >>)
            /\ (pc' = "parsing" /\ IsHeaderLine(raw')) =>
                  /\ current_section' = HeaderName(raw')
                  /\ Contains(current_section', ";")
            /\ (pc' = "parsing" /\ IsKeyValueLine(raw')) =>
                  /\ << current_section, LineKey(raw') >> \in DOMAIN stored'
                  /\ stored'[<< current_section, LineKey(raw') >>] = LineValue(raw')
                  /\ \/ Contains(LineKey(raw'), ";")
                     \/ Contains(LineValue(raw'), ";") ]_vars

\* a comment line read between keys
C17_Witness ==
  /\ pc = "parsing"
  /\ nread = 4
  /\ line_num = 4
  /\ raw = << "\t", ";", "=", "a" >>
  /\ current_section = << "s" >>
  /\ data = [s \in {<< "s" >>} |-> [k \in {<< "k" >>} |-> << "5" >>]]

\* C18: the trimmed line is the line read without its leading and trailing
\* run of spaces and tabs and nothing else: it is empty when the line holds
\* only spaces and tabs, otherwise it runs from the first to the last
\* character that is neither, inner spaces and carriage returns kept; and
\* trimming it again changes nothing.
C18_Trim ==
  LET solid == { i \in 1..Len(raw) : raw[i] \notin Blank }
  IN /\ solid = {} => trimmed = << >>
     /\ solid # {} =>
          LET lo == CHOOSE i \in solid : \A j \in solid : i <= j
              hi == CHOOSE i \in solid : \A j \in solid : j <= i
          IN trimmed = SubSeq(raw, lo, hi)
     /\ trim(trimmed) = trimmed

\* a line whose inner space and trailing carriage return are kept
C18_Witness ==
  /\ raw = << "\t", "a", " ", "\r" >>
  /\ trimmed = << "a", " ", "\r" >>

ParseErrors ==
  { "MalformedSection", "EmptySectionName", "NameContainsWhitespace",
    "MissingEquals", "EmptyKey", "KeyValueOutsideSection" }

\* C19: a parse that has started ends, with a completed Document or with an
\* error and never both; every step of it consumes exactly one line, and
\* when it completes the lines counted are the lines of the input.
C19_ParseTerminates ==
  /\ (pc = "parsing") ~> (pc # "parsing")
  /\ [][ /\ (pc = "parsing" /\ pc' = "parsing") =>
              /\ nread' = nread + 1
              /\ line_num' = line_num + 1
         /\ (pc = "parsing" /\ pc' # "parsing") =>
              \/ /\ pc' \in {"creating", "done"}
                 /\ err' = NoError
                 /\ nread' = nread
                 /\ line_num' = nread
                 /\ data' = data
              \/ /\ pc' = "error"
                 /\ err'.kind \in ParseErrors
                 /\ nread' = nread + 1
                 /\ line_num' = nread'
                 /\ err'.line = nread'
         /\ pc # "parsing" => (nread' = nread /\ line_num' = line_num) ]_vars

\* a parse of three lines that completed
C19_Witness ==
  /\ pc = "done"
  /\ source = "file"
  /\ err = NoError
  /\ nread = 3
  /\ line_num = 3
  /\ DOMAIN data = { << "a" >> }
  /\ data[<< "a" >>] # EmptyMap

====
